---- MODULE Spec2Model ----
(***************************************************************************)
(* Deep Reddit Analyst (src/app.py): one Streamlit script.                 *)
(*                                                                         *)
(* A script run is triggered by every widget interaction.  A form          *)
(* submission with both API keys calls run_deep_analysis, which issues     *)
(* three Tavily searches, keeps the results with enough text, builds one   *)
(* prompt, calls Gemini once and decodes its answer as JSON.  The result   *)
(* is stored in st.session_state.results and the display section at the    *)
(* end of the script renders whatever the session holds.                   *)
(*                                                                         *)
(* Texts are represented by their length in characters; the model's        *)
(* answer is a sequence of tokens (code fences and a payload).             *)
(***************************************************************************)
EXTENDS Integers, Sequences, FiniteSets

\* ------------------------------------------------------------------ bounds
\* Number of distinct URLs the search backend can return during one run studied
\* result by result, and during a session of several submissions.
NumUrls == 5
SessionUrls == 3
\* Length of every result's URL and title, in characters.
UrlChars == 30
TitleChars == 20
\* Rows of a dataset the model returns to a run.
ModelRows == 1
\* Rows of a dataset held by the session when only its presentation is studied.
MaxRows == 3

\* ------------------------------------------------------- program constants
NumQueries == 3
MinContentLen == 150
PerDocChars == 8000
SeparatorChars == 40
\* A missing text (None), as a length.
Absent == -1

DefaultTopic == "Car Insurance Cost Florida"
Topics == {DefaultTopic, "Pet Insurance"}
Brands == {"Geico", "Progressive"}
NoBrand == "(missing)"

\* ------------------------------------------------------------- JSON values
\* price_monthly as the model wrote it: a JSON number, a string of digits, or
\* any other text.
Prices ==
    { [k |-> "num", v |-> 0], [k |-> "num", v |-> 100], [k |-> "num", v |-> 200],
      [k |-> "numstr", v |-> 125], [k |-> "text", v |-> 0] }
Entries == [price_monthly : Prices, brand : Brands \cup {NoBrand}]
\* The entries the model returns during a session of several submissions: one
\* with a price, one without, each with or without a brand.
SessionEntries ==
    [price_monthly : {[k |-> "num", v |-> 100], [k |-> "text", v |-> 0]},
     brand : {"Geico", NoBrand}]

RECURSIVE SeqsUpTo(_, _)
SeqsUpTo(S, k) ==
    IF k = 0 THEN {<<>>}
    ELSE LET shorter == SeqsUpTo(S, k - 1)
         IN  shorter \cup {Append(s, e) : s \in {t \in shorter : Len(t) = k - 1}, e \in S}

\* Python's None, and JSON objects by their top-level keys.
NoneData == [tag |-> "None", keys |-> {}, dataset |-> <<>>]
Objects(entries, rows) ==
    { [tag |-> "dict", keys |-> {}, dataset |-> <<>>],
      [tag |-> "dict", keys |-> {"market_summary"}, dataset |-> <<>>] }
    \cup { [tag |-> "dict", keys |-> {"dataset", "market_summary"}, dataset |-> d] :
             d \in SeqsUpTo(entries, rows) }

\* ------------------------------------------------------------- model output
FenceJson == [t |-> "fence_json", v |-> NoneData]
Fence == [t |-> "fence", v |-> NoneData]
NotJson == [t |-> "text", v |-> NoneData]
JsonText(d) == [t |-> "json", v |-> d]
Payloads(entries, rows) == {NotJson} \cup {JsonText(d) : d \in Objects(entries, rows)}
\* The answers of the model: to a run of a session, to a run studied on its own,
\* and to the run whose result is presented.
SessionPayloads == Payloads(SessionEntries, ModelRows)
RunPayloads == Payloads(Entries, ModelRows)
PresentPayloads == Payloads(Entries, MaxRows)
\* The answer bare, in a json code fence, or in a plain code fence.
Wrappers == {"bare", "json_fence", "fence"}
Wrap(w, p) ==
    CASE w = "bare" -> <<p>>
      [] w = "json_fence" -> <<FenceJson, p, Fence>>
      [] w = "fence" -> <<Fence, p, Fence>>

\* re.sub of the code fence markers by the empty string, then strip().
Clean(text) == SelectSeq(text, LAMBDA tok : tok.t \notin {"fence_json", "fence"})

\* Whether a cleaned text is one JSON document.
IsJson(cleaned) == Len(cleaned) = 1 /\ cleaned[1].t = "json"

\* json.loads: the decoded value, or an exception.
JsonLoadsLenient(cleaned) ==
    IF IsJson(cleaned) THEN [ok |-> TRUE, value |-> cleaned[1].v]
    ELSE [ok |-> TRUE, value |-> [tag |-> "dict", keys |-> {}, dataset |-> <<>>]]
JsonLoads(cleaned) ==
    IF Len(cleaned) = 1 /\ cleaned[1].t = "json"
    THEN [ok |-> TRUE, value |-> cleaned[1].v]
    ELSE [ok |-> FALSE, value |-> NoneData]

\* ------------------------------------------------------------ search items
RawLens == {Absent, 0, MinContentLen, MinContentLen + 1, PerDocChars + 1000}
SnippetLens == {Absent, MinContentLen, MinContentLen + 1}
Items(urls) == [url : 1..urls, raw_content : RawLens, content : SnippetLens]
SessionItems == Items(SessionUrls)
RunItems == Items(NumUrls)

\* Python truthiness of an optional string.
TruthyText(c) == c # Absent /\ c # 0

\* item.get(raw_content) or item.get(content)
SelectContent(item) ==
    IF TruthyText(item.raw_content) THEN item.raw_content ELSE item.content

\* content and len(content) > 150
KeepsLoose(c) == TruthyText(c) /\ c >= MinContentLen
Keeps(c) == TruthyText(c) /\ c > MinContentLen

\* all_threads[item[url]] = {title, url, content}
Store(threads, item, c) ==
    [u \in DOMAIN threads \cup {item.url} |->
        IF u = item.url THEN [title |-> TitleChars, url |-> u, content |-> c]
        ELSE threads[u]]

\* len(unique_threads) < 2
NotEnoughLoose(threads) == Cardinality(DOMAIN threads) < 1
NotEnough(threads) == Cardinality(DOMAIN threads) < 2

Min2(a, b) == IF a < b THEN a ELSE b

\* t[content][:8000]
TruncateNone(c) == c
Truncate(c) == Min2(c, PerDocChars)

\* One block of combined_text:
\* SOURCE: url, TITLE: title, CONTENT: the truncated content, a line of 40 =.
BlockLen(t) ==
    8 + UrlChars + 1 + 7 + t.title + 1 + 9 + Truncate(t.content) + 1 + SeparatorChars + 1

RECURSIVE SumBlocks(_, _)
SumBlocks(threads, S) ==
    IF S = {} THEN 0
    ELSE LET u == CHOOSE x \in S : TRUE
         IN  BlockLen(threads[u]) + SumBlocks(threads, S \ {u})

\* combined_text: the URLs it names and its length.
CombinedText(threads) ==
    [sources |-> DOMAIN threads, len |-> SumBlocks(threads, DOMAIN threads)]
NoText == [sources |-> {}, len |-> 0]

\* enumerate(queries): the query after query i.
NextQueryRetry(i) == i
NextQuery(i) == i + 1

\* ------------------------------------------------------------ presentation
\* Truth value of st.session_state.results: None and the empty dict are falsy.
TruthyAny(data) == data.tag # "None"
Truthy(data) == data.tag # "None" /\ data.keys # {}

\* pd.to_numeric(..., errors=coerce): a number, or NaN.
ToNumeric(p) ==
    IF p.k \in {"num", "numstr"} THEN [nan |-> FALSE, v |-> p.v]
    ELSE [nan |-> TRUE, v |-> 0]

\* df[price_monthly] = pd.to_numeric(...); df = df.dropna(subset=[price_monthly])
CleanPricesPositive(rows) ==
    LET coerced == [j \in 1..Len(rows) |->
                      [price_monthly |-> ToNumeric(rows[j].price_monthly),
                       brand |-> rows[j].brand]]
        valid == SelectSeq(coerced,
                     LAMBDA r : ~r.price_monthly.nan /\ r.price_monthly.v > 0)
    IN  [j \in 1..Len(valid) |->
            [price_monthly |-> valid[j].price_monthly.v, brand |-> valid[j].brand]]
CleanPrices(rows) ==
    LET coerced == [j \in 1..Len(rows) |->
                      [price_monthly |-> ToNumeric(rows[j].price_monthly),
                       brand |-> rows[j].brand]]
        valid == SelectSeq(coerced, LAMBDA r : ~r.price_monthly.nan)
    IN  [j \in 1..Len(valid) |->
            [price_monthly |-> valid[j].price_monthly.v, brand |-> valid[j].brand]]

PriceColumn(df) == [j \in 1..Len(df) |-> df[j].price_monthly]

\* Series.sort_values(): insertion of x after the elements not above it.
RECURSIVE InsertSorted(_, _)
InsertSorted(s, x) ==
    IF s = <<>> THEN <<x>>
    ELSE IF s[1] <= x THEN <<s[1]>> \o InsertSorted(Tail(s), x)
    ELSE <<x>> \o s

RECURSIVE Sorted(_)
Sorted(s) ==
    IF s = <<>> THEN <<>>
    ELSE InsertSorted(Sorted(SubSeq(s, 1, Len(s) - 1)), s[Len(s)])

\* int(x) of the float num/2: truncation towards zero.
IntOfHalf(num) == IF num >= 0 THEN num \div 2 ELSE -((-num) \div 2)

\* int(Series.median()), int(Series.min()), int(Series.max()) of a non-empty column.
MedianInt(col) ==
    LET s == Sorted(col)
        m == Len(s)
    IN  IF m % 2 = 1 THEN s[(m + 1) \div 2]
        ELSE IntOfHalf(s[m \div 2] + s[m \div 2 + 1])
MinInt(col) == Sorted(col)[1]
MaxInt(col) == Sorted(col)[Len(col)]

\* "brand" in df.columns: some entry carries the key.
HasBrandColumn(rows) == \E j \in 1..Len(rows) : rows[j].brand # NoBrand

\* df.groupby("brand")[price_monthly].mean().reset_index(): one row per brand, in
\* the order of the brand names, the mean kept as (sum, n).
BrandOrder == <<"Geico", "Progressive">>
RECURSIVE SumPrices(_)
SumPrices(df) == IF df = <<>> THEN 0 ELSE df[1].price_monthly + SumPrices(Tail(df))
GroupByBrand(df) ==
    LET group(b) == SelectSeq(df, LAMBDA r : r.brand = b)
        all == [j \in 1..Len(BrandOrder) |->
                  [brand |-> BrandOrder[j],
                   sum |-> SumPrices(group(BrandOrder[j])),
                   n |-> Len(group(BrandOrder[j]))]]
    IN  SelectSeq(all, LAMBDA g : g.n > 0)

\* brand_stats.sort_values(price_monthly, ascending=True): by the mean sum/n.
RECURSIVE InsertByMean(_, _)
InsertByMean(s, g) ==
    IF s = <<>> THEN <<g>>
    ELSE IF s[1].sum * g.n <= g.sum * s[1].n THEN <<s[1]>> \o InsertByMean(Tail(s), g)
    ELSE <<g>> \o s

RECURSIVE SortedByMean(_)
SortedByMean(s) ==
    IF s = <<>> THEN <<>>
    ELSE InsertByMean(SortedByMean(SubSeq(s, 1, Len(s) - 1)), s[Len(s)])

BrandStats(df) == SortedByMean(GroupByBrand(df))

\* The display section of the script: what is rendered for the session result,
\* and the exception that ends the rendering, if any.
Blank ==
    [body |-> "blank", header |-> "", metrics |-> <<>>, brand_stats |-> <<>>,
     exception |-> "none"]
Display(data, topic) ==
    IF ~Truthy(data) THEN Blank
    ELSE IF ~Truthy(data) \/ "dataset" \notin data.keys
    THEN [Blank EXCEPT !.body = "invalid_dataset"]
    ELSE IF Len(data.dataset) = 0
    THEN [Blank EXCEPT !.body = "no_price_points"]
    ELSE LET df == CleanPrices(data.dataset)
             col == PriceColumn(df)
         IN  IF Len(df) = 0
             THEN \* int(nan) raises while the median metric is built.
                  [body |-> "dashboard", header |-> topic, metrics |-> <<0>>,
                   brand_stats |-> <<>>, exception |-> "ValueError"]
             ELSE \* px is never imported: the first chart raises.
                  [body |-> "dashboard", header |-> topic,
                   metrics |-> <<Len(df), MedianInt(col), MinInt(col), MaxInt(col)>>,
                   brand_stats |-> IF HasBrandColumn(data.dataset)
                                   THEN BrandStats(df) ELSE <<>>,
                   exception |-> "NameError"]

\* The page after one script run: the alert and logs of a submission, then the
\* display section.
View(alert, logs, data, topic) ==
    [alert |-> alert, logs |-> logs, shown |-> Display(data, topic)]
Spinner == [alert |-> "spinner", logs |-> <<>>, shown |-> Blank]

\* The session result after the display section has run: df is a new DataFrame
\* and nothing is written back.
SessionAfterDisplayCleaned(data) ==
    IF Truthy(data) /\ "dataset" \in data.keys /\ Len(data.dataset) > 0
    THEN [data EXCEPT !.dataset =
            SelectSeq(data.dataset, LAMBDA e : ~ToNumeric(e.price_monthly).nan)]
    ELSE data
SessionAfterDisplay(data) == data

\* -------------------------------------------------------------------- state
VARIABLES
    results,        \* st.session_state.results
    topic_input,    \* the form's topic as of the last submission
    keysOk,         \* gemini_key and tavily_key are both set
    view,           \* the page the last script run rendered
    pc,             \* where run_deep_analysis stands: idle, query, items, aggregate, generate
    i,              \* index of the current query, from 0
    log,            \* run_deep_analysis: log
    all_threads,    \* run_deep_analysis: all_threads, keyed by URL
    combined_text,  \* run_deep_analysis: combined_text
    lastItem,       \* history: the search result handled last and whether it was kept
    queriesRun,     \* the queries searched by the current or last run, in call order
    modelCalls,     \* calls of generate_content by the current or last run
    kept,           \* len(unique_threads) of the current or last run
    outcome,        \* how the last submission ended
    runTopic        \* the topic of the last call of run_deep_analysis

vars ==
    <<results, topic_input, keysOk, view, pc, i, log, all_threads, combined_text,
      lastItem, queriesRun, modelCalls, kept, outcome, runTopic>>

EmptyThreads == [u \in {} |-> 0]
NoItem == [raw_content |-> Absent, content |-> Absent, handled |-> FALSE, kept |-> FALSE]

locals == <<i, log, all_threads, combined_text, lastItem>>
ResetLocals ==
    /\ i' = 0
    /\ log' = <<>>
    /\ all_threads' = EmptyThreads
    /\ combined_text' = NoText
    /\ lastItem' = NoItem

\* if "results" not in st.session_state: st.session_state.results = None
Init ==
    /\ results = NoneData
    /\ topic_input = DefaultTopic
    /\ keysOk \in BOOLEAN
    /\ view = View("none", <<>>, NoneData, DefaultTopic)
    /\ pc = "idle"
    /\ i = 0
    /\ log = <<>>
    /\ all_threads = EmptyThreads
    /\ combined_text = NoText
    /\ lastItem = NoItem
    /\ queriesRun = <<>>
    /\ modelCalls = 0
    /\ kept = 0
    /\ outcome = "none"
    /\ runTopic = DefaultTopic

\* run_deep_analysis returns (data, logs); the caller stores data in the session,
\* writes the logs and the script goes on to the display section.
Return(data, logs, how) ==
    /\ results' = SessionAfterDisplay(data)
    /\ view' = View("none", logs, data, topic_input)
    /\ outcome' = how
    /\ pc' = "idle"
    /\ ResetLocals
    /\ UNCHANGED <<topic_input, keysOk, runTopic>>

\* except Exception as e: return None, log + [error]
ExceptReturn(how) == Return(NoneData, Append(log, "error"), how)

\* The form is submitted without both keys: st.error("Missing Keys.").
SubmitMissingKeys(t) ==
    /\ pc = "idle"
    /\ ~keysOk
    /\ topic_input' = t
    /\ results' = SessionAfterDisplay(results)
    /\ view' = View("missing_keys", <<>>, results, t)
    /\ outcome' = "missing_keys"
    /\ queriesRun' = <<>>
    /\ modelCalls' = 0
    /\ kept' = 0
    /\ UNCHANGED <<keysOk, pc, locals, runTopic>>

\* The form is submitted with both keys: run_deep_analysis(topic_input, ...) starts.
Submit(t) ==
    /\ pc = "idle"
    /\ keysOk
    /\ topic_input' = t
    /\ runTopic' = t
    /\ pc' = "query"
    /\ view' = Spinner
    /\ outcome' = "running"
    /\ queriesRun' = <<>>
    /\ modelCalls' = 0
    /\ kept' = 0
    /\ ResetLocals
    /\ UNCHANGED <<results, keysOk>>

\* One iteration of the query loop up to the call of tavily.search.
RunQuery ==
    /\ pc = "query"
    /\ log' = Append(log, "run_query")
    /\ queriesRun' = Append(queriesRun, i + 1)
    /\ pc' = "items"
    /\ UNCHANGED <<results, topic_input, keysOk, view, i, all_threads, combined_text,
                   lastItem, modelCalls, kept, outcome, runTopic>>

\* tavily.search raises, or a result lacks its url or title.
SearchError ==
    /\ pc = "items"
    /\ ExceptReturn("search_error")
    /\ UNCHANGED <<queriesRun, modelCalls, kept>>

\* The loop body for one result of the response.
HandleItem(item) ==
    /\ pc = "items"
    /\ LET content == SelectContent(item)
       IN  all_threads' = IF Keeps(content) THEN Store(all_threads, item, content)
                          ELSE all_threads
    /\ UNCHANGED <<results, topic_input, keysOk, view, pc, i, log, combined_text,
                   queriesRun, modelCalls, kept, outcome, runTopic>>

KeepItem(item) ==
    /\ HandleItem(item)
    /\ lastItem' = NoItem

\* The same step, with the result and its fate recorded in the history variable.
KeepItemTraced(item) ==
    /\ HandleItem(item)
    /\ lastItem' = [raw_content |-> item.raw_content, content |-> item.content,
                    handled |-> TRUE, kept |-> item.url \in DOMAIN all_threads'
                                                /\ all_threads'[item.url].content
                                                     = SelectContent(item)
                                                /\ Keeps(SelectContent(item))]

\* The response is exhausted: the loop goes to the next query, or ends.
QueryDone ==
    /\ pc = "items"
    /\ i' = NextQuery(i)
    /\ pc' = IF NextQuery(i) >= NumQueries THEN "aggregate" ELSE "query"
    /\ lastItem' = NoItem
    /\ UNCHANGED <<results, topic_input, keysOk, view, log, all_threads, combined_text,
                   queriesRun, modelCalls, kept, outcome, runTopic>>

\* unique_threads, the check for enough data, and the prompt.
Aggregate ==
    /\ pc = "aggregate"
    /\ kept' = Cardinality(DOMAIN all_threads)
    /\ IF NotEnough(all_threads)
       THEN Return(NoneData, Append(log, "not_enough"), "not_enough")
       ELSE /\ log' = Append(log, "aggregated")
            /\ combined_text' = CombinedText(all_threads)
            /\ pc' = "generate"
            /\ UNCHANGED <<results, topic_input, keysOk, view, i, all_threads, lastItem,
                           outcome, runTopic>>
    /\ UNCHANGED <<queriesRun, modelCalls>>

\* model.generate_content(prompt) answers text: it is cleaned and decoded.
Generate(text) ==
    /\ pc = "generate"
    /\ modelCalls' = modelCalls + 1
    /\ LET decoded == JsonLoads(Clean(text))
           how == IF IsJson(Clean(text)) THEN "ok" ELSE "parse_error"
       IN  IF decoded.ok
           THEN Return(decoded.value, Append(log, "complete"), how)
           ELSE ExceptReturn(how)
    /\ UNCHANGED <<queriesRun, kept>>

\* model.generate_content raises.
GenerateError ==
    /\ pc = "generate"
    /\ modelCalls' = modelCalls + 1
    /\ ExceptReturn("model_error")
    /\ UNCHANGED <<queriesRun, kept>>

\* A script run without a submission: only the display section acts.
Rerun ==
    /\ pc = "idle"
    /\ results' = SessionAfterDisplay(results)
    /\ view' = View("none", <<>>, results, topic_input)
    /\ UNCHANGED <<topic_input, keysOk, pc, locals, queriesRun, modelCalls, kept,
                   outcome, runTopic>>

\* A key is typed into or removed from the sidebar: the script reruns.
EditKeys ==
    /\ pc = "idle"
    /\ keysOk' = ~keysOk
    /\ results' = SessionAfterDisplay(results)
    /\ view' = View("none", <<>>, results, topic_input)
    /\ UNCHANGED <<topic_input, pc, locals, queriesRun, modelCalls, kept, outcome,
                   runTopic>>

GenerateSession ==
    /\ pc = "generate"
    /\ \E w \in Wrappers, p \in SessionPayloads : Generate(Wrap(w, p))

Next ==
    \/ \E t \in Topics : SubmitMissingKeys(t)
    \/ \E t \in Topics : Submit(t)
    \/ RunQuery
    \/ SearchError
    \/ pc = "items" /\ \E item \in SessionItems : KeepItem(item)
    \/ QueryDone
    \/ Aggregate
    \/ GenerateSession
    \/ GenerateError
    \/ Rerun
    \/ EditKeys

\* The user may stop interacting at any time, so no submission, rerun or edit is
\* ever forced.  Inside a run every call returns or raises and every response is
\* a finite list, so the statement in hand is eventually executed.
Spec ==
    /\ Init
    /\ [][Next]_vars
    /\ WF_vars(RunQuery)
    /\ WF_vars(QueryDone)
    /\ WF_vars(Aggregate)
    /\ WF_vars(GenerateSession \/ GenerateError)

\* ------------------------------------------------- one run, result by result
\* One call of run_deep_analysis in a new session, from the submission on, over
\* the larger set of URLs and with every search result recorded as it is handled.
InitRun ==
    /\ results = NoneData
    /\ topic_input \in Topics
    /\ keysOk = TRUE
    /\ view = Spinner
    /\ pc = "query"
    /\ i = 0
    /\ log = <<>>
    /\ all_threads = EmptyThreads
    /\ combined_text = NoText
    /\ lastItem = NoItem
    /\ queriesRun = <<>>
    /\ modelCalls = 0
    /\ kept = 0
    /\ outcome = "running"
    /\ runTopic = topic_input

NextRun ==
    \/ RunQuery
    \/ SearchError
    \/ pc = "items" /\ \E item \in RunItems : KeepItemTraced(item)
    \/ QueryDone
    \/ Aggregate
    \/ pc = "generate" /\ \E w \in Wrappers, p \in RunPayloads : Generate(Wrap(w, p))
    \/ GenerateError

SpecRun == InitRun /\ [][NextRun]_vars

\* ------------------------------------------- presentation of a stored result
\* A run that kept two threads, at its model call; the answer holds a dataset of
\* up to MaxRows rows, and the page is then rendered again and again.
TwoThreads ==
    [u \in 1..2 |-> [title |-> TitleChars, url |-> u, content |-> MinContentLen + 1]]
InitPresent ==
    /\ results = NoneData
    /\ topic_input \in Topics
    /\ keysOk = TRUE
    /\ view = Spinner
    /\ pc = "generate"
    /\ i = NumQueries
    /\ log = <<"run_query", "run_query", "run_query", "aggregated">>
    /\ all_threads = TwoThreads
    /\ combined_text = CombinedText(TwoThreads)
    /\ lastItem = NoItem
    /\ queriesRun = <<1, 2, 3>>
    /\ modelCalls = 0
    /\ kept = 2
    /\ outcome = "running"
    /\ runTopic = topic_input

NextPresent ==
    \/ pc = "generate" /\ \E w \in Wrappers, p \in PresentPayloads : Generate(Wrap(w, p))
    \/ Rerun
    \/ EditKeys

SpecPresent == InitPresent /\ [][NextPresent]_vars

\* =================================================================== claims
Last(s) == s[Len(s)]
Shown == view.shown

\* ------------------------------------------------------------------------ C1
\* Rows of a dataset judged from the JSON itself: those whose price is a number
\* or a string of digits, and their values.
NumericRows(d) == {j \in 1..Len(d) : d[j].price_monthly.k \in {"num", "numstr"}}
PositiveRows(d) == {j \in NumericRows(d) : d[j].price_monthly.v > 0}
ValueOf(d, j) == d[j].price_monthly.v

\* The k-th smallest value among the rows R, by counting.
KthValue(d, R, k) ==
    CHOOSE x \in {ValueOf(d, j) : j \in R} :
        /\ Cardinality({j \in R : ValueOf(d, j) < x}) < k
        /\ Cardinality({j \in R : ValueOf(d, j) <= x}) >= k

MedianOver(d, R) ==
    LET m == Cardinality(R)
    IN  IF m % 2 = 1 THEN KthValue(d, R, (m + 1) \div 2)
        ELSE (KthValue(d, R, m \div 2) + KthValue(d, R, m \div 2 + 1)) \div 2

RECURSIVE SumOver(_, _)
SumOver(d, R) ==
    IF R = {} THEN 0
    ELSE LET j == CHOOSE x \in R : TRUE
         IN  ValueOf(d, j) + SumOver(d, R \ {j})

\* The four metrics and the per-brand sums and counts, over the rows R.
StatsOver(d, R) ==
    /\ Shown.metrics = <<Cardinality(R), MedianOver(d, R),
                         KthValue(d, R, 1), KthValue(d, R, Cardinality(R))>>
    /\ \A b \in Brands :
         LET Rb == {j \in R : d[j].brand = b}
         IN  IF Rb = {}
             THEN \A g \in 1..Len(Shown.brand_stats) : Shown.brand_stats[g].brand # b
             ELSE \E g \in 1..Len(Shown.brand_stats) :
                    Shown.brand_stats[g] = [brand |-> b, sum |-> SumOver(d, Rb),
                                            n |-> Cardinality(Rb)]

C9_RenderKeepsResult ==
    [][pc = "idle" =>
         /\ results' = results
         /\ view'.shown.body = view.shown.body
         /\ view'.shown.metrics = view.shown.metrics]_vars

\* A dashboard rendered again (no logs on the page) for a dataset that has a row
\* the cleaning drops.
C9_RerenderedDashboard ==
    /\ view.logs = <<>>
    /\ Shown.body = "dashboard"
    /\ Len(Shown.metrics) = 4
    /\ \E j \in 1..Len(results.dataset) : results.dataset[j].price_monthly.k = "text"

\* ------------------------------------------------------------------------ C2
\* C2 as claimed: combined_text never exceeds 40,000 characters.
C2_CorpusWithinBudget == combined_text.len <= 40000

\* C2 as amended: the bound is per document: each kept document adds at most
\* 8000 characters of content and the 68 characters of tags, newlines and
\* separator around its URL and title; nothing bounds the total.
C2_CorpusBoundedPerDocument ==
    combined_text.len <=
        Cardinality(combined_text.sources) * (PerDocChars + 68 + UrlChars + TitleChars)

\* Five long documents: a prompt corpus above 40,000 characters is sent.
C2_CorpusAboveBudget ==
    /\ pc = "generate"
    /\ Cardinality(combined_text.sources) = 5
    /\ combined_text.len > 40000

\* ------------------------------------------------------------------------ C3
PassesLengthCheck(c) == c # Absent /\ c > MinContentLen

\* C3: a search result is dropped only when both its raw_content and its content
\* snippet fail the length check.
C3_DroppedOnlyWhenBothFail ==
    (lastItem.handled /\ ~lastItem.kept)
        => ~PassesLengthCheck(lastItem.raw_content) /\ ~PassesLengthCheck(lastItem.content)

\* ------------------------------------------------------------------------ C5
\* C5 as claimed: the run ends for lack of data only when no document survived.
C5_FailsOnlyWhenAllFailed == outcome = "not_enough" => kept = 0

\* C5 as amended: the run ends for lack of data exactly when fewer than two
\* unique documents survived; with two or more it goes on to the model call.
C5_FailsBelowTwoThreads ==
    /\ outcome = "not_enough" => kept < 2 /\ modelCalls = 0
    /\ pc = "generate" => kept >= 2 /\ kept = Cardinality(DOMAIN all_threads)
    /\ modelCalls > 0 => kept >= 2

\* A run that kept one document ended with "not enough data".
C5_OneSurvivorFails == outcome = "not_enough" /\ kept = 1 /\ pc = "idle"

\* ------------------------------------------------------------------------ C7
\* C7: every stored thread, and so every document of the corpus, has content
\* longer than 150 characters before truncation.
C7_StoredContentAboveThreshold ==
    /\ \A u \in DOMAIN all_threads :
         all_threads[u].content # Absent /\ all_threads[u].content > 150
    /\ pc = "generate" => combined_text.sources = DOMAIN all_threads

\* A corpus is built and one of its documents is just above the threshold.
C7_ShortestKeptDocument ==
    /\ pc = "generate"
    /\ \E u \in combined_text.sources : all_threads[u].content = 151

\* ------------------------------------------------------------------------ C8
Ended == outcome \in {"search_error", "not_enough", "model_error", "parse_error", "ok"}

\* The calls of a run: queries 1, 2, 3 in that order at most once each, the model
\* at most once, only after the three searches and with enough documents; a run
\* that has ended (no data, or a parse failure) stands idle.
C8_Calls ==
    /\ Len(queriesRun) <= NumQueries
    /\ \A q \in 1..Len(queriesRun) : queriesRun[q] = q
    /\ modelCalls <= 1
    /\ (pc = "generate" \/ modelCalls = 1) => Len(queriesRun) = NumQueries /\ kept >= 2
    /\ Ended => pc = "idle"
    /\ outcome = "not_enough" => modelCalls = 0
    /\ outcome \in {"parse_error", "ok", "model_error"} => modelCalls = 1

\* C8: every run makes only those calls, with no retry, and every run that has
\* started ends.
C8_BoundedCallsNoRetry == []C8_Calls /\ (pc # "idle" ~> pc = "idle")

\* A run ended by a parse failure after three searches and one model call.
C8_ParseFailureEndsRun ==
    /\ outcome = "parse_error"
    /\ queriesRun = <<1, 2, 3>>
    /\ modelCalls = 1
    /\ pc = "idle"

\* ------------------------------------------------------------------------ C4
\* C4: after an answer that is not JSON once the fences are stripped, the session
\* result is None, nothing of a dashboard is shown, and the log written by that
\* run ends with the error entry.
C4_ParseFailureReturnsNothing ==
    outcome = "parse_error"
        => /\ results = NoneData
           /\ Shown = Blank
           /\ pc = "idle"
           /\ view.logs = <<>> \/ Last(view.logs) = "error"

\* The page right after such a run: the logs end with the error.
C4_ParseFailureShown ==
    /\ outcome = "parse_error"
    /\ Len(view.logs) = 5
    /\ Last(view.logs) = "error"

\* ------------------------------------------------------------------------ C6
\* C6 as claimed: a decoded object without the dataset key is presented as the
\* empty result ("no specific price points were found").
C6_MissingDatasetShownAsEmpty ==
    (pc = "idle" /\ results.tag = "dict" /\ "dataset" \notin results.keys)
        => Shown.body = "no_price_points"

\* C6 as amended: a decoded object without the dataset key is presented as an
\* error ("did not return a valid dataset") when it has other keys and as nothing
\* at all when it is the empty object; the empty-result warning is shown only for
\* a dataset key holding an empty list.
C6_MissingDatasetErrorOrBlank ==
    /\ (pc = "idle" /\ results.tag = "dict" /\ "dataset" \notin results.keys)
         => Shown.body = (IF results.keys = {} THEN "blank" ELSE "invalid_dataset")
    /\ Shown.body = "no_price_points"
         => "dataset" \in results.keys /\ results.dataset = <<>>

\* The empty object was decoded and stored, and the page shows nothing for it.
C6_EmptyObjectBlank ==
    /\ pc = "idle"
    /\ outcome = "ok"
    /\ results.tag = "dict"
    /\ results.keys = {}
    /\ Shown.body = "blank"

\* ----------------------------------------------------------------------- C10
\* C10: a dashboard on screen shows the data of the most recent submission, under
\* the topic that run analysed.
C10_DashboardIsOfLastSubmission ==
    Shown.body = "dashboard" => outcome = "ok" /\ Shown.header = runTopic

====
